---- MODULE Spec2Model ----
(***************************************************************************)
(* ConferenceInstanceRepository                                            *)
(* (frontend_developing/repositories/conference_instance_repository.py).   *)
(*                                                                         *)
(* The repository is a facade over four tables: Conference,                *)
(* ConferenceInstance, Paper and Session.  The tables are the state; every *)
(* repository method is an action (or, for SpecConc, the database          *)
(* statements of upsert are the actions of each session).                  *)
(*                                                                         *)
(*   Spec       one repository, calls run to completion one at a time:     *)
(*              upsert from an empty ConferenceInstance table.             *)
(*   SpecQuery  the read methods applied to bounded tables.                *)
(*   SpecConc   two sessions running upsert statement by statement.        *)
(***************************************************************************)
EXTENDS Integers, Sequences, FiniteSets, TLC

VARIABLES
    confName,     \* Conference table: conference_id -> name
    instances,    \* ConferenceInstance table: sequence of rows, instance_id = index
    papers,       \* Paper table: paper_id -> instance_id
    sessions,     \* Session table: session_id -> instance_id
    result,       \* the last call of the repository and what it gave its caller
    pc,           \* SpecConc: position of each session inside upsert
    local         \* SpecConc: the locals of each session's upsert call

vars == <<confName, instances, papers, sessions, result, pc, local>>

(***************************************************************************)
(* Bounds                                                                  *)
(***************************************************************************)
MaxYear      == 1       \* years are 0..MaxYear
MaxInstances == 2       \* ConferenceInstance rows
MaxPapers    == 2       \* Paper rows

Names       == {"AAAI", "NeurIPS"}
ConfRows    == <<"c1", "c2">>          \* conference_id of the Conference rows
ConfIds     == {ConfRows[i] : i \in DOMAIN ConfRows}
CallConfIds == ConfIds \cup {"cX"}    \* "cX": no such Conference
Years       == 0..MaxYear
InstanceIds == 1..MaxInstances
FieldKeys   == {"location"}           \* the extra columns **kwargs may name
FieldValues == {"a", "b"}
NULL        == "NULL"                 \* a column that was never set
\* **kwargs: any subset of the extra columns, each with a value
Kwargs      == UNION {[D -> FieldValues] : D \in SUBSET FieldKeys}
ProcIds     == {1, 2}                 \* SpecConc: the two sessions

(***************************************************************************)
(* Rows and elementary queries                                             *)
(***************************************************************************)
\* the constructor call without conference_name=name
ConferenceInstance_NoName(instance_id, conference_id, name, year, kwargs) ==
    [instance_id     |-> instance_id,
     conference_id   |-> conference_id,
     conference_name |-> NULL,
     year            |-> year,
     fields          |-> [k \in FieldKeys |->
                            IF k \in DOMAIN kwargs THEN kwargs[k] ELSE NULL]]

\* ConferenceInstance(conference_id=..., conference_name=name, year=year, **kwargs)
\* (line 32-34); a column kwargs does not name stays NULL.
ConferenceInstance(instance_id, conference_id, name, year, kwargs) ==
    [instance_id     |-> instance_id,
     conference_id   |-> conference_id,
     conference_name |-> name,
     year            |-> year,
     fields          |-> [k \in FieldKeys |->
                            IF k \in DOMAIN kwargs THEN kwargs[k] ELSE NULL]]

\* for key, value in kwargs.items(): setattr(instance, key, value)  (line 29-30)
SetAttrs(row, kwargs) ==
    [row EXCEPT !.fields = [k \in FieldKeys |->
                              IF k \in DOMAIN kwargs THEN kwargs[k] ELSE @[k]]]

\* the Conference check left out: every conference_id passes
QueryConference_NoCheck(conference_id) == TRUE

\* query(Conference).filter_by(conference_id=conference_id).first()  (line 15-19)
\* TRUE iff a row came back.
QueryConference(conference_id) == conference_id \in DOMAIN confName

\* query(ConferenceInstance).filter_by(conference_id=..., year=...)  (line 23-25):
\* the instance_ids of the matching rows.
QueryInstance(insts, conference_id, year) ==
    {i \in 1..Len(insts) : /\ insts[i].conference_id = conference_id
                           /\ insts[i].year = year}

\* .first() on a query without ORDER BY: any one of the matching rows, or
\* None (0) when there is none.
First(ids) == IF ids = {} THEN {0} ELSE ids

NoCall == [op |-> "none"]

\* the Session rows: two sessions of instance 1, one of instance 2
SessionTable == <<1, 1, 2>>

(***************************************************************************)
(* upsert, run to completion (line 12-38)                                  *)
(***************************************************************************)
\* the update path without the setattr loop
UpsertRow_NoSetAttr(insts, found, conference_id, name, year, kwargs) ==
    IF found # 0
    THEN insts[found]
    ELSE ConferenceInstance(Len(insts) + 1, conference_id, name, year, kwargs)

\* The row upsert leaves for a found instance_id (0: no row found).
UpsertRow(insts, found, conference_id, name, year, kwargs) ==
    IF found # 0
    THEN SetAttrs(insts[found], kwargs)
    ELSE ConferenceInstance(Len(insts) + 1, conference_id, name, year, kwargs)

\* session.add(instance) on both paths
UpsertWrite_AlwaysAdd(insts, found, row) == Append(insts, row)

\* session.add(instance) / the mutated row, then session.commit()
UpsertWrite(insts, found, row) ==
    IF found # 0 THEN [insts EXCEPT ![found] = row] ELSE Append(insts, row)

Upsert(conference_id, name, year, kwargs) ==
    LET args == <<conference_id, name, year, kwargs>>
        again == /\ result.op = "upsert"
                 /\ result.outcome = "ok"
                 /\ result.args = args
    IN
    IF ~QueryConference(conference_id)
    THEN /\ result' = [op |-> "upsert", args |-> args,
                       outcome |-> "ValueError: Conference not found",
                       value |-> 0, committed |-> FALSE, repeat |-> FALSE]
         /\ UNCHANGED instances
    ELSE \E found \in First(QueryInstance(instances, conference_id, year)) :
            LET row == UpsertRow(instances, found, conference_id, name, year, kwargs)
            IN /\ found = 0 => Len(instances) < MaxInstances
               /\ instances' = UpsertWrite(instances, found, row)
               /\ result' = [op |-> "upsert", args |-> args, outcome |-> "ok",
                             value |-> row, committed |-> TRUE, repeat |-> again]

\* the callers of Spec supply location="a" or no extra field
SeqKwargs == {kwargs \in Kwargs : \A k \in DOMAIN kwargs : kwargs[k] = "a"}

UpsertCall ==
    /\ \E conference_id \in CallConfIds, name \in Names, year \in Years,
          kwargs \in SeqKwargs : Upsert(conference_id, name, year, kwargs)
    /\ UNCHANGED <<confName, papers, sessions, pc, local>>

(***************************************************************************)
(* Result shaping shared by the read methods                               *)
(***************************************************************************)
\* Python values of the optional `year` argument of get_conference_stats
PyNone     == [kind |-> "None", val |-> 0]
PyInt(n)   == [kind |-> "int", val |-> n]
PyStr(str) == [kind |-> "str", val |-> str]
YearArgs   == {PyNone, PyStr("All Years")} \cup {PyInt(y) : y \in Years}

\* Python truth value: None, 0 and "" are falsy
Truthy(v) ==
    CASE v.kind = "None" -> FALSE
      [] v.kind = "int"  -> v.val # 0
      [] v.kind = "str"  -> v.val # ""

\* v != "All Years"
NotAllYears(v) == IF v.kind = "str" THEN v.val # "All Years" ELSE TRUE

\* alphabetical order of the conference names
NameRank == [n \in Names |-> IF n = "AAAI" THEN 1 ELSE 2]
RankName(k) == CHOOSE n \in Names : NameRank[n] = k

\* every enumeration of a result set: the order of rows the query does not order
Orderings(S) ==
    {s \in [1..Cardinality(S) -> S] : \A i, j \in DOMAIN s : i # j => s[i] # s[j]}

MaxOf(s) == CHOOSE m \in {s[i] : i \in DOMAIN s} : \A i \in DOMAIN s : s[i] <= m

RemoveFirst(s, m) ==
    LET k == CHOOSE i \in DOMAIN s : s[i] = m /\ \A j \in 1..(i-1) : s[j] # m
    IN SubSeq(s, 1, k-1) \o SubSeq(s, k+1, Len(s))

\* .distinct()
RECURSIVE Distinct(_)
Distinct(s) ==
    IF s = << >> THEN << >>
    ELSE LET d == Distinct(SubSeq(s, 1, Len(s) - 1))
             x == s[Len(s)]
         IN IF \E i \in DOMAIN d : d[i] = x THEN d ELSE Append(d, x)

\* .order_by(col.desc()) on a single integer column
RECURSIVE OrderByDesc(_)
OrderByDesc(s) ==
    IF s = << >> THEN << >>
    ELSE <<MaxOf(s)>> \o OrderByDesc(RemoveFirst(s, MaxOf(s)))

\* sorted(...) / .order_by(col) ascending
OrderByAsc(s) ==
    LET d == OrderByDesc(s) IN [i \in 1..Len(d) |-> d[Len(d) + 1 - i]]

\* Conference JOIN ConferenceInstance ON conference_id: the instance rows that
\* have a Conference row, in table order
JoinConference(insts) ==
    SelectSeq(insts, LAMBDA r : r.conference_id \in DOMAIN confName)

\* Conference JOIN ConferenceInstance LEFT OUTER JOIN Paper (line 87-92,
\* 115-120): one row per (instance, paper of that instance); an instance
\* without papers gives one row whose paper_id is NULL (0).
PapersOf(instance_id) == {p \in DOMAIN papers : papers[p] = instance_id}

\* an inner join in place of the outer join
OuterJoinPaper_Inner(i) == PapersOf(i)


OuterJoinPaper(i) == IF PapersOf(i) = {} THEN {0} ELSE PapersOf(i)

JoinAll ==
    {[c |-> instances[i].conference_id, i |-> i, p |-> p] :
        <<i, p>> \in {ip \in (1..Len(instances)) \X (0..MaxPapers) :
                        /\ instances[ip[1]].conference_id \in DOMAIN confName
                        /\ ip[2] \in OuterJoinPaper(ip[1])}}

\* func.count() over the rows of the group, NULL paper_id included
CountPaperId_CountStar(rows) == Cardinality(rows)

\* func.count(Paper.paper_id): the rows of the group whose paper_id is not NULL
CountPaperId(rows) == Cardinality({r \in rows : r.p # 0})

(***************************************************************************)
(* The read methods as functions of the tables                             *)
(***************************************************************************)
\* get_all_conferences (line 40-43)
GetAllConferences ==
    LET names == Distinct([i \in DOMAIN ConfRows |-> NameRank[confName[ConfRows[i]]]])
        out   == OrderByAsc(names)
    IN [i \in 1..Len(out) |-> RankName(out[i])]

\* get_all_years (line 45-53)
GetAllYears ==
    OrderByDesc(Distinct([i \in 1..Len(instances) |-> instances[i].year]))

\* get_conferences_by_year (line 55-65)
GetConferencesByYear(year) ==
    LET rows  == SelectSeq(JoinConference(instances), LAMBDA r : r.year = year)
        names == Distinct([i \in 1..Len(rows) |-> NameRank[confName[rows[i].conference_id]]])
        out   == OrderByAsc(names)
    IN [i \in 1..Len(out) |-> RankName(out[i])]

\* get_conference_years without .distinct()
GetConferenceYears_NoDistinct(conference) ==
    LET rows == SelectSeq(JoinConference(instances),
                          LAMBDA r : confName[r.conference_id] = conference)
    IN OrderByDesc([i \in 1..Len(rows) |-> rows[i].year])

\* get_conference_years (line 67-77)
GetConferenceYears(conference) ==
    LET rows == SelectSeq(JoinConference(instances),
                          LAMBDA r : confName[r.conference_id] = conference)
    IN OrderByDesc(Distinct([i \in 1..Len(rows) |-> rows[i].year]))

\* if year and year != "All Years"  (line 96)
YearFilterApplies(year) == Truthy(year) /\ NotAllYears(year)

\* get_conference_stats, the query (line 83-102): the possible results, one
\* for each order the engine may give rows of equal year
ConferenceStatsQuery(conference, year) ==
    LET rows   == {r \in JoinAll :
                     /\ confName[r.c] = conference
                     /\ YearFilterApplies(year) => instances[r.i].year = year.val}
        groups == {r.i : r \in rows}
        pair(i) == <<instances[i], CountPaperId({r \in rows : r.i = i})>>
    IN {s \in Orderings({pair(i) : i \in groups}) :
          \A a, b \in DOMAIN s : a < b => s[a][1].year >= s[b][1].year}

\* get_yearly_conference_stats, the query (line 110-124): grouped by
\* Conference.name, in any order
YearlyConferenceStatsQuery(year) ==
    LET rows   == {r \in JoinAll : instances[r.i].year = year}
        groups == {confName[r.c] : r \in rows}
        pair(n) == <<n, CountPaperId({r \in rows : confName[r.c] = n})>>
    IN Orderings({pair(n) : n \in groups})

\* get_sessions_by_instance, the query (line 129-134)
SessionsQuery(instance_id) ==
    Orderings({s \in DOMAIN sessions : sessions[s] = instance_id})

\* get_instance_by_year_and_name, the query (line 145-149): instance_id of the
\* row .first() gives, 0 for None
InstanceByYearAndNameQuery(insts, year, conference_name) ==
    First({i \in 1..Len(insts) : /\ insts[i].year = year
                                 /\ insts[i].conference_name = conference_name})

(***************************************************************************)
(* The read methods as calls: `fails` is the underlying query raising      *)
(***************************************************************************)
Return(v) == [outcome |-> "return", value |-> v]
Raise     == [outcome |-> "raise", value |-> << >>]

\* no try/except around the query: the error reaches the caller
Propagating(fails, v) == IF fails THEN Raise ELSE Return(v)

\* get_conference_stats without its try/except
ConferenceStatsOutcome_NoExcept(fails, v) == IF fails THEN Raise ELSE Return(v)

\* try: return query.all()  except Exception: print(...); return []  (line 82-106)
ConferenceStatsOutcome(fails, v) == IF fails THEN Return(<< >>) ELSE Return(v)

\* try: ... return sessions  except Exception: print(...); return []  (line 128-138)
SessionsOutcome(fails, v) == IF fails THEN Return(<< >>) ELSE Return(v)

\* try: ... return instance  except Exception: print(...); return None  (line 144-153)
InstanceOutcome(fails, v) == IF fails THEN Return(0) ELSE Return(v)

Called(op, args, fails, out) ==
    result' = [op |-> op, args |-> args, queryFailed |-> fails,
               outcome |-> out.outcome, value |-> out.value]

ReadOnly == UNCHANGED <<confName, instances, papers, sessions, pc, local>>

GetAllConferencesCall ==
    /\ \E fails \in BOOLEAN :
          Called("get_all_conferences", << >>, fails,
                 Propagating(fails, GetAllConferences))
    /\ ReadOnly

GetAllYearsCall ==
    /\ \E fails \in BOOLEAN :
          Called("get_all_years", << >>, fails, Propagating(fails, GetAllYears))
    /\ ReadOnly

GetConferencesByYearCall ==
    /\ \E year \in Years, fails \in BOOLEAN :
          Called("get_conferences_by_year", <<year>>, fails,
                 Propagating(fails, GetConferencesByYear(year)))
    /\ ReadOnly

GetConferenceYearsCall ==
    /\ \E conference \in Names, fails \in BOOLEAN :
          Called("get_conference_years", <<conference>>, fails,
                 Propagating(fails, GetConferenceYears(conference)))
    /\ ReadOnly

GetConferenceStatsCall ==
    /\ \E conference \in Names, year \in YearArgs, fails \in BOOLEAN :
          \E v \in ConferenceStatsQuery(conference, year) :
             Called("get_conference_stats", <<conference, year>>, fails,
                    ConferenceStatsOutcome(fails, v))
    /\ ReadOnly

GetYearlyConferenceStatsCall ==
    /\ \E year \in Years, fails \in BOOLEAN :
          \E v \in YearlyConferenceStatsQuery(year) :
             Called("get_yearly_conference_stats", <<year>>, fails,
                    Propagating(fails, v))
    /\ ReadOnly

GetSessionsByInstanceCall ==
    /\ \E instance_id \in InstanceIds, fails \in BOOLEAN :
          \E v \in SessionsQuery(instance_id) :
             Called("get_sessions_by_instance", <<instance_id>>, fails,
                    SessionsOutcome(fails, v))
    /\ ReadOnly

GetInstanceByYearAndNameCall ==
    /\ \E year \in Years, conference_name \in Names, fails \in BOOLEAN :
          \E v \in InstanceByYearAndNameQuery(instances, year, conference_name) :
             Called("get_instance_by_year_and_name", <<year, conference_name>>,
                    fails, InstanceOutcome(fails, v))
    /\ ReadOnly

(***************************************************************************)
(* SpecQuery: the read methods over bounded tables                         *)
(***************************************************************************)
\* ConferenceInstance tables upsert can have written when its callers pass the
\* Conference's own name and no extra field: every row belongs to a Conference
\* row.  Two rows may share (conference_id, year): see SpecConc.  The rows
\* were created in the order of their year, and within a year "c1" first.
CreatedBefore(r1, r2) ==
    \/ r1.year < r2.year
    \/ r1.year = r2.year /\ (r1.conference_id = "c1" \/ r2.conference_id # "c1")

Tables(names) ==
    UNION {{t \in [1..n -> [instance_id : InstanceIds, conference_id : ConfIds,
                            conference_name : Names, year : Years,
                            fields : [FieldKeys -> {NULL}]]] :
              /\ \A i \in 1..n : /\ t[i].instance_id = i
                                 /\ t[i].conference_name = names[t[i].conference_id]
              /\ \A i, j \in 1..n : i < j => CreatedBefore(t[i], t[j])} :
           n \in 0..MaxInstances}

\* Paper tables: each paper belongs to one of the first two instance_ids;
\* paper_ids are given in the order of the instances they belong to (only the
\* counts are read)
PaperTables ==
    {t \in [1..MaxPapers -> 1..2] :
        \A p, q \in 1..MaxPapers : p < q => t[p] <= t[q]}

InitQuery ==
    /\ confName \in [ConfIds -> Names]
    /\ instances \in Tables(confName)
    /\ papers \in PaperTables
    /\ sessions = SessionTable
    /\ result = NoCall
    /\ pc = [p \in ProcIds |-> "idle"]
    /\ local = [p \in ProcIds |-> NoCall]

NextQuery ==
    \/ GetAllConferencesCall
    \/ GetAllYearsCall
    \/ GetConferencesByYearCall
    \/ GetConferenceYearsCall
    \/ GetConferenceStatsCall
    \/ GetYearlyConferenceStatsCall
    \/ GetSessionsByInstanceCall
    \/ GetInstanceByYearAndNameCall

SpecQuery == InitQuery /\ [][NextQuery]_vars

(***************************************************************************)
(* SpecConc: upsert in two sessions, one database statement per step       *)
(***************************************************************************)
CommitsSoFar == Cardinality({q \in ProcIds : pc[q] = "done" /\ local[q].outcome = "ok"})

\* session.commit() with the unique-per-pair check the code does not make:
\* the pending INSERT turns into an UPDATE of an existing row of the pair
Flush_Relookup(insts, found, loaded, conference_id, name, year, kwargs) ==
    LET now == QueryInstance(insts, conference_id, year)
        at  == IF found # 0 THEN found
               ELSE IF now # {} THEN CHOOSE i \in now : TRUE ELSE 0
    IN IF at # 0
       THEN [insts EXCEPT ![at] = SetAttrs(@, kwargs)]
       ELSE Append(insts, ConferenceInstance(Len(insts) + 1, conference_id,
                                             name, year, kwargs))

\* session.commit() (line 37) flushes what the session holds: for a new
\* instance an INSERT, for a loaded instance an UPDATE, by instance_id, of the
\* attributes whose value differs from the loaded one.
Flush(insts, found, loaded, conference_id, name, year, kwargs) ==
    IF found # 0
    THEN [insts EXCEPT ![found].fields =
            [k \in FieldKeys |->
               IF k \in DOMAIN kwargs /\ kwargs[k] # loaded.fields[k]
               THEN kwargs[k] ELSE @[k]]]
    ELSE Append(insts, ConferenceInstance(Len(insts) + 1, conference_id,
                                          name, year, kwargs))

\* line 15-21 in session p
ConcQueryConference(p) ==
    /\ pc[p] = "idle"
    /\ \E conference_id \in CallConfIds, name \in Names, year \in Years,
          kwargs \in Kwargs :
          LET args == <<conference_id, name, year, kwargs>>
          IN IF ~QueryConference(conference_id)
             THEN /\ pc' = [pc EXCEPT ![p] = "done"]
                  /\ local' = [local EXCEPT ![p] =
                        [op |-> "upsert", args |-> args,
                         outcome |-> "ValueError: Conference not found"]]
             ELSE /\ pc' = [pc EXCEPT ![p] = "query_instance"]
                  /\ local' = [local EXCEPT ![p] =
                        [op |-> "upsert", args |-> args]]
    /\ UNCHANGED <<confName, instances, papers, sessions, result>>

\* line 23-35 in session p: the lookup reads the committed rows; what follows
\* it up to the commit touches only the session
ConcQueryInstance(p) ==
    /\ pc[p] = "query_instance"
    /\ \E found \in First(QueryInstance(instances, local[p].args[1], local[p].args[3])) :
          local' = [local EXCEPT ![p] =
                      [op |-> "upsert", args |-> local[p].args, found |-> found,
                       loaded |-> IF found # 0 THEN instances[found] ELSE NoCall,
                       commitsSeen |-> CommitsSoFar]]
    /\ pc' = [pc EXCEPT ![p] = "commit"]
    /\ UNCHANGED <<confName, instances, papers, sessions, result>>

\* line 37-38 in session p
ConcCommit(p) ==
    /\ pc[p] = "commit"
    /\ local[p].found = 0 => Len(instances) < MaxInstances
    /\ instances' = Flush(instances, local[p].found, local[p].loaded,
                          local[p].args[1], local[p].args[2],
                          local[p].args[3], local[p].args[4])
    /\ local' = [local EXCEPT ![p] =
                   [op |-> "upsert", args |-> local[p].args,
                    found |-> local[p].found,
                    loaded |-> local[p].loaded,
                    commitsSeen |-> local[p].commitsSeen,
                    outcome |-> "ok", seq |-> CommitsSoFar + 1]]
    /\ pc' = [pc EXCEPT ![p] = "done"]
    /\ UNCHANGED <<confName, papers, sessions, result>>

\* the table before the two calls: empty, or one row that an upsert created
\* with the Conference's name
ConcTables(names) ==
    {<< >>} \cup
    {<<[ConferenceInstance(1, c, names[c], y, << >>) EXCEPT !.fields = f]>> :
        <<c, y, f>> \in ConfIds \X Years \X [FieldKeys -> FieldValues \cup {NULL}]}

InitConc ==
    /\ confName \in [ConfIds -> Names]
    /\ instances \in ConcTables(confName)
    /\ papers = [p \in 1..MaxPapers |-> 1]
    /\ sessions = SessionTable
    /\ result = NoCall
    /\ pc = [p \in ProcIds |-> "idle"]
    /\ local = [p \in ProcIds |-> NoCall]

NextConc ==
    \E p \in ProcIds :
        \/ ConcQueryConference(p)
        \/ ConcQueryInstance(p)
        \/ ConcCommit(p)

SpecConc == InitConc /\ [][NextConc]_vars

(***************************************************************************)
(* Spec: one repository, upserts one at a time, from an empty table        *)
(***************************************************************************)
Init ==
    /\ confName = [c \in ConfIds |-> IF c = "c1" THEN "AAAI" ELSE "NeurIPS"]
    /\ instances = << >>
    /\ papers = [p \in 1..MaxPapers |-> 1]
    /\ sessions = SessionTable
    /\ result = NoCall
    /\ pc = [p \in ProcIds |-> "idle"]
    /\ local = [p \in ProcIds |-> NoCall]

Next == UpsertCall

Spec == Init /\ [][Next]_vars

(***************************************************************************)
(* Properties of upsert under Spec                                         *)
(***************************************************************************)
UpsertOk == result.op = "upsert" /\ result.outcome = "ok"

C2_UnknownConferenceFails ==
    [][(result'.op = "upsert" /\ result'.args[1] \notin DOMAIN confName) =>
          /\ result'.outcome = "ValueError: Conference not found"
          /\ ~result'.committed
          /\ instances' = instances]_vars

\* a failed upsert on a table that holds rows
C2_Witness ==
    /\ result.op = "upsert"
    /\ result.args[1] \notin DOMAIN confName
    /\ result.outcome = "ValueError: Conference not found"
    /\ Len(instances) >= 1

\* C3: starting from an empty table, upserts run one at a time leave at most
\* one ConferenceInstance row per (conference_id, year).
C3_AtMostOnePerPair ==
    \A i, j \in 1..Len(instances) :
        (/\ instances[i].conference_id = instances[j].conference_id
         /\ instances[i].year = instances[j].year) => i = j

\* two rows exist and the last upsert took the update path
C3_Witness ==
    /\ Len(instances) >= 2
    /\ UpsertOk
    /\ result.value.instance_id < Len(instances)

\* C10: after a successful upsert(conference_id, name, year) that returned
\* instance I, get_instance_by_year_and_name(year, name) finds I: the stored
\* conference_name of I is the name given to this upsert, so I is among the
\* rows the lookup matches, and the lookup does not return None.
C10_LookupAfterUpsert ==
    UpsertOk =>
        result.value.instance_id \in
            InstanceByYearAndNameQuery(instances, result.args[3], result.args[2])

\* C10 as amended: an instance keeps the conference_id, year and
\* conference_name it was created with through every later upsert; and after
\* a successful upsert(conference_id, name, year) returning I, where I was
\* created by this call or had been created with this same name,
\* get_instance_by_year_and_name(year, name) does not return None, every
\* instance it can return has that year and that stored name, and it returns
\* I itself unless another row of that year carries the same name.
C10_LookupByCreationName ==
    [][/\ \A i \in 1..Len(instances) :
             /\ instances'[i].conference_name = instances[i].conference_name
             /\ instances'[i].conference_id = instances[i].conference_id
             /\ instances'[i].year = instances[i].year
       /\ (result'.op = "upsert" /\ result'.outcome = "ok") =>
             LET name == result'.args[2]
                 year == result'.args[3]
                 I    == result'.value.instance_id
                 before == QueryInstance(instances, result'.args[1], year)
                 m    == InstanceByYearAndNameQuery(instances', year, name)
                 others == {j \in 1..Len(instances') :
                              /\ j # I
                              /\ instances'[j].year = year
                              /\ instances'[j].conference_name = name}
             IN (\A i \in before : instances[i].conference_name = name) =>
                   /\ 0 \notin m
                   /\ I \in m
                   /\ \A v \in m : /\ instances'[v].year = year
                                   /\ instances'[v].conference_name = name
                   /\ others = {} => m = {I}]_vars

\* an upsert on the update path with the creation name, while another
\* conference's instance of that year carries the same name
C10_Witness ==
    /\ UpsertOk
    /\ result.value.instance_id < Len(instances)
    /\ result.value.conference_name = result.args[2]
    /\ Cardinality(InstanceByYearAndNameQuery(instances, result.args[3],
                                              result.args[2])) = 2

(***************************************************************************)
(* Properties of the read methods under SpecQuery                          *)
(***************************************************************************)
ReadOk(op) == result.op = op /\ ~result.queryFailed

\* the instances of the Conferences named `conference`
InstancesOfName(conference) ==
    {i \in 1..Len(instances) :
        /\ instances[i].conference_id \in DOMAIN confName
        /\ confName[instances[i].conference_id] = conference}

\* the true number of Paper rows of an instance
PaperCount(i) == Cardinality({p \in DOMAIN papers : papers[p] = i})

\* C4: get_conference_stats(conference_name) without a year returns exactly
\* one (instance, paper_count) pair for every instance of the Conference of
\* that name and no other pair; paper_count is the number of Paper rows whose
\* instance_id is the instance's (0 included); the pairs are in descending
\* order of year.
C4_ConferenceStats ==
    (ReadOk("get_conference_stats") /\ result.args[2] = PyNone) =>
        LET v == result.value
            expected == InstancesOfName(result.args[1])
        IN /\ \A i \in expected :
                 Cardinality({k \in DOMAIN v : v[k][1] = instances[i]}) = 1
           /\ \A k \in DOMAIN v : \E i \in expected :
                 v[k] = <<instances[i], PaperCount(i)>>
           /\ \A a, b \in DOMAIN v : a < b => v[a][1].year >= v[b][1].year

\* the scenario of the spec: two instances of different years, the later one
\* without papers, the earlier one with papers
C4_Witness ==
    /\ ReadOk("get_conference_stats") /\ result.args[2] = PyNone
    /\ Len(result.value) = 2
    /\ result.value[1][1].year > result.value[2][1].year
    /\ result.value[1][2] = 0
    /\ result.value[2][2] > 0

\* C5: get_conference_stats filters by the year whenever an integer year is
\* passed: every returned instance has that year; with None or "All Years"
\* the instances of every year of the named conference are returned.
C5_YearFilter ==
    ReadOk("get_conference_stats") =>
        LET v == result.value
            year == result.args[2]
        IN /\ year.kind = "int" =>
                 \A k \in DOMAIN v : v[k][1].year = year.val
           /\ year.kind # "int" =>
                 \A i \in InstancesOfName(result.args[1]) :
                    \E k \in DOMAIN v : v[k][1] = instances[i]

\* C6: get_conference_years(C) contains Y iff an instance of year Y belongs to
\* a Conference named C, and the sequence is strictly descending.
C6_ConferenceYears ==
    ReadOk("get_conference_years") =>
        LET v == result.value
        IN /\ \A Y \in Years :
                 (\E k \in DOMAIN v : v[k] = Y)
                   <=> (\E i \in InstancesOfName(result.args[1]) :
                           instances[i].year = Y)
           /\ \A a, b \in DOMAIN v : a < b => v[a] > v[b]

\* two years returned for a conference name
C6_Witness ==
    /\ ReadOk("get_conference_years")
    /\ Len(result.value) >= 2
    /\ Len(instances) >= 2

\* C7: a failing query never reaches the caller of get_conference_stats,
\* get_sessions_by_instance (both return an empty sequence) and
\* get_instance_by_year_and_name (returns None); it reaches the caller of
\* get_yearly_conference_stats, get_conferences_by_year, get_conference_years,
\* get_all_conferences and get_all_years.
C7_ErrorHandling ==
    /\ result.op \in {"get_conference_stats", "get_sessions_by_instance",
                      "get_instance_by_year_and_name"} =>
          result.outcome = "return"
    /\ (result.op \in {"get_conference_stats", "get_sessions_by_instance"}
          /\ result.queryFailed) => result.value = << >>
    /\ (result.op = "get_instance_by_year_and_name" /\ result.queryFailed) =>
          result.value = 0
    /\ (result.op \in {"get_yearly_conference_stats", "get_conferences_by_year",
                       "get_conference_years", "get_all_conferences",
                       "get_all_years"}
          /\ result.queryFailed) => result.outcome = "raise"

\* get_conference_stats failed on tables for which the query has rows to give
C7_Witness ==
    /\ result.op = "get_conference_stats"
    /\ result.queryFailed
    /\ result.outcome = "return"
    /\ << >> \notin ConferenceStatsQuery(result.args[1], result.args[2])

\* the Conferences with an instance in `year`
ConferencesOfYear(year) ==
    {c \in DOMAIN confName :
        \E i \in 1..Len(instances) :
            instances[i].conference_id = c /\ instances[i].year = year}

\* C8: get_yearly_conference_stats(year) returns exactly one
\* (conference_name, paper_count) pair for every Conference with an instance
\* in that year and none for any other; paper_count is the number of Paper
\* rows of that Conference's instances of that year.
C8_YearlyStats ==
    ReadOk("get_yearly_conference_stats") =>
        LET v == result.value
            year == result.args[1]
            confs == ConferencesOfYear(year)
            count(c) == Cardinality({p \in DOMAIN papers :
                           /\ papers[p] \in 1..Len(instances)
                           /\ instances[papers[p]].conference_id = c
                           /\ instances[papers[p]].year = year})
        IN /\ Len(v) = Cardinality(confs)
           /\ \A c \in confs :
                 \E k \in DOMAIN v : v[k] = <<confName[c], count(c)>>
           /\ \A k \in DOMAIN v :
                 \E c \in confs : v[k] = <<confName[c], count(c)>>

\* C8 as amended: get_yearly_conference_stats(year) returns exactly one
\* (conference_name, paper_count) pair for every name of a Conference with an
\* instance in that year and none for any other name; paper_count is the
\* number of Paper rows of the instances of that year of all Conferences of
\* that name.
C8_YearlyStatsByName ==
    ReadOk("get_yearly_conference_stats") =>
        LET v == result.value
            year == result.args[1]
            names == {confName[c] : c \in ConferencesOfYear(year)}
            count(n) == Cardinality({p \in DOMAIN papers :
                           /\ papers[p] \in 1..Len(instances)
                           /\ instances[papers[p]].conference_id \in DOMAIN confName
                           /\ confName[instances[papers[p]].conference_id] = n
                           /\ instances[papers[p]].year = year})
        IN /\ Len(v) = Cardinality(names)
           /\ \A n \in names : \E k \in DOMAIN v : v[k] = <<n, count(n)>>
           /\ \A k \in DOMAIN v : \E n \in names : v[k] = <<n, count(n)>>

\* two Conferences of one name, both with an instance in the year, one pair
C8_Witness ==
    /\ ReadOk("get_yearly_conference_stats")
    /\ Cardinality(ConferencesOfYear(result.args[1])) = 2
    /\ Len(result.value) = 1
    /\ result.value[1][2] > 0

(***************************************************************************)
(* Properties of concurrent upserts under SpecConc                         *)
(***************************************************************************)
ConcOk(p) == pc[p] = "done" /\ local[p].outcome = "ok"

\* both sessions upserted the same pair and both looked the instance up before
\* either committed
Raced(p, q) ==
    /\ p # q /\ ConcOk(p) /\ ConcOk(q)
    /\ local[p].args[1] = local[q].args[1]
    /\ local[p].args[3] = local[q].args[3]
    /\ local[p].commitsSeen = 0 /\ local[q].commitsSeen = 0

\* C9: two upserts of the same (conference_id, year) in two sessions, both
\* looking the instance up before either commits, end with two rows for the
\* pair when neither found a row (duplicate row), and, when both found the
\* row, with every field the session that committed last changed holding that
\* session's value (an update of the field by the other session is lost).
C9_RaceAnomalies ==
    \A p, q \in ProcIds :
        Raced(p, q) =>
            LET ids == QueryInstance(instances, local[p].args[1], local[p].args[3])
            IN /\ (local[p].found = 0 /\ local[q].found = 0) =>
                     Cardinality(ids) = 2
               /\ (local[p].found # 0 /\ local[p].seq < local[q].seq) =>
                     /\ local[q].found = local[p].found
                     /\ \A k \in DOMAIN local[q].args[4] :
                           local[q].args[4][k] # local[q].loaded.fields[k] =>
                              instances[local[p].found].fields[k] = local[q].args[4][k]

\* the duplicate-row state: both sessions committed an INSERT for the pair
C9_DuplicateRows ==
    \E p, q \in ProcIds :
        /\ Raced(p, q)
        /\ local[p].found = 0 /\ local[q].found = 0
        /\ \E i, j \in 1..Len(instances) :
              /\ i # j
              /\ instances[i].conference_id = instances[j].conference_id
              /\ instances[i].year = instances[j].year

\* the lost-update state: the value the first session committed is gone (it
\* is not the one the row had before either call, nor the one the row has now)
C9_LostUpdate ==
    \E p, q \in ProcIds :
        /\ Raced(p, q)
        /\ local[p].found # 0 /\ local[p].seq < local[q].seq
        /\ \E k \in DOMAIN local[p].args[4] \cap DOMAIN local[q].args[4] :
              /\ local[p].args[4][k] # local[q].args[4][k]
              /\ local[p].args[4][k] # local[p].loaded.fields[k]
              /\ instances[local[p].found].fields[k] = local[q].args[4][k]
====